---- MODULE Spec2Model ----
(***************************************************************************)
(* Model of cldfbench.cldf: the CLDFSpec configuration value and the       *)
(* CLDFWriter context manager (src/cldfbench/cldf.py).                     *)
(*                                                                         *)
(* Two specifications:                                                     *)
(*   SpecCons  - CLDFSpec(...) applied to bounded sets of arguments        *)
(*   Spec      - the life of one CLDFWriter: construction, scope entry,    *)
(*               lookups and appends on `objects`, explicit write calls    *)
(*               and scope exit                                            *)
(***************************************************************************)
EXTENDS Integers, Sequences, FiniteSets, TLC

VARIABLES
    spec_args,      \* arguments of the CLDFSpec(...) call under study
    spec_result,    \* what that call produced: an instance or an exception
    constructed,    \* CLDFWriter.__init__ has completed
    cldf_spec,      \* CLDFWriter.cldf_spec
    objects,        \* CLDFWriter.objects (defaultdict(list))
    args,           \* CLDFWriter.args
    dataset,        \* CLDFWriter.dataset
    dir,            \* CLDFWriter.dir: the files present in the output directory
    cldf,           \* CLDFWriter.cldf: the pycldf handle (properties, table urls)
    calls,          \* calls made on the handle by the most recent write()
    inScope,        \* a `with writer:` block is open
    outcome,        \* the most recent write()/__exit__: arguments and what propagated
    appended,       \* history: every objects[t].append(r), in program order
    lookedUp,       \* history: every key t used in objects[t]
    n               \* history: counters of exits, write() calls, stampings, handle writes

vars == <<spec_args, spec_result, constructed, cldf_spec, objects, args, dataset,
          dir, cldf, calls, inScope, outcome, appended, lookedUp, n>>

writerVars == <<constructed, cldf_spec, objects, args, dataset, dir, cldf, calls,
                inScope, outcome, appended, lookedUp, n>>

(***************************************************************************)
(* Bounds                                                                  *)
(***************************************************************************)
MaxRows == 2        \* appends per writer
MaxWrites == 2      \* write() invocations per writer (explicit or by exit)
MaxArgs == 2        \* values in the cli argument namespace

(***************************************************************************)
(* Python values                                                           *)
(***************************************************************************)
None == "None"
EmptyMap == [x \in {} |-> x]
NoPath == <<>>                     \* default_metadata_path=None
ValueError == "ValueError"
FileNotFoundError == "FileNotFoundError"
CalledProcessError == "CalledProcessError"
JSONDecodeError == "JSONDecodeError"
KeyError == "KeyError"
IOError == "IOError"

\* pycldf.dataset.MD_SUFFIX
MD_SUFFIX == "-metadata.json"

\* [m.id for m in get_modules()]
ModuleIds == {"Generic", "Wordlist", "StructureDataset"}

\* a module argument is either a name or a Dataset subclass
StrArg(s) == [kind |-> "str", value |-> s]
ClsArg(s) == [kind |-> "class", value |-> s]

ModuleArgs ==
    {StrArg("Generic"), StrArg("Wordlist"), StrArg("Treebank"),
     ClsArg("Wordlist"), ClsArg("StructureDataset"), ClsArg("object")}

\* paths are sequences of components; the file system the constructor reads
MetadataFiles == {<<"etc", "md.json">>}
OtherFiles == {<<"etc", "README.md">>}
PathArgs == {NoPath, <<"etc", "md.json">>, <<"etc", "README.md">>, <<"etc", "absent.json">>}

FnameArgs == {None, "", "cldf-metadata.json"}

\* data_fnames: an insertion-ordered dict, as a sequence of <<component, filename>>
DataFnameArgs ==
    {<<>>,
     <<(<<"ValueTable", "vals.csv">>)>>,
     <<(<<"ValueTable", "vals.csv">>), (<<"LanguageTable", "langs.csv">>)>>,
     <<(<<"ValueTable", "vals.csv">>), (<<"ParameterTable", "params.csv">>)>>}

\* pathlib.Path(p).name
PathName(p) == p[Len(p)]

\* pycldf.util.pkg_path('modules', name)
pkg_path(name) == <<"pycldf", "modules", name>>

\* string concatenation '{0}{1}'.format(module, MD_SUFFIX), on the names in use
Format(m) ==
    CASE m = "Generic" -> "Generic-metadata.json"
      [] m = "Wordlist" -> "Wordlist-metadata.json"
      [] m = "StructureDataset" -> "StructureDataset-metadata.json"
      [] OTHER -> "unknown-metadata.json"

\* Dataset.from_metadata(path): None when it loads, else the exception it raises
from_metadata(p) ==
    IF p \in MetadataFiles \/ (Len(p) = 3 /\ p[1] = "pycldf") THEN None
    ELSE IF p \in OtherFiles THEN JSONDecodeError
    ELSE FileNotFoundError

\* converter=lambda cls: getattr(cls, '__name__', cls)
module_converter(m) == IF m.kind = "class" THEN StrArg(m.value) ELSE m

\* validator=attr.validators.in_([m.id for m in get_modules()])
module_validator(m) == IF m.value \in ModuleIds THEN None ELSE ValueError

NoSpec == [module |-> None, default_metadata_path |-> NoPath,
           metadata_fname |-> None, data_fnames |-> <<>>]

Raised(exc, cause) == [status |-> "raised", exc |-> exc, cause |-> cause, value |-> NoSpec]
Returned(v) == [status |-> "returned", exc |-> None, cause |-> None, value |-> v]
Pending == [status |-> "pending", exc |-> None, cause |-> None, value |-> NoSpec]

\* the exception raised when the default metadata cannot be loaded
PostInitErrorAsRaised(loadError) == loadError

PostInitError(loadError) == ValueError

\* CLDFSpec.__attrs_post_init__
attrs_post_init(self) ==
    LET given == self.default_metadata_path # NoPath
        load == IF given THEN from_metadata(self.default_metadata_path) ELSE None
        path == IF given THEN self.default_metadata_path
                ELSE pkg_path(Format(self.module))
        fname == IF self.metadata_fname \in {None, ""} THEN PathName(path)
                 ELSE self.metadata_fname
    IN  IF load # None
        THEN Raised(PostInitError(load), load)
        ELSE Returned([self EXCEPT !.default_metadata_path = path,
                                   !.metadata_fname = fname])

\* CLDFSpec(module, default_metadata_path, metadata_fname, data_fnames):
\* the attrs-generated __init__ converts, validates, then runs the post-init hook
CLDFSpec(a) ==
    LET m == module_converter(a.module)
    IN  IF module_validator(m) # None
        THEN Raised(module_validator(m), "module")
        ELSE attrs_post_init([module |-> m.value,
                              default_metadata_path |-> a.default_metadata_path,
                              metadata_fname |-> a.metadata_fname,
                              data_fnames |-> a.data_fnames])

\* CLDFSpec.cls
cls(self) == CHOOSE id \in ModuleIds : id = self.module

SpecArgsSet ==
    [module : ModuleArgs, default_metadata_path : PathArgs,
     metadata_fname : FnameArgs, data_fnames : DataFnameArgs]

DefaultSpecArgs ==
    [module |-> StrArg("Generic"), default_metadata_path |-> NoPath,
     metadata_fname |-> None, data_fnames |-> <<>>]

(***************************************************************************)
(* CLDFWriter                                                              *)
(***************************************************************************)
Tables == {"ValueTable", "LanguageTable"}     \* keys used on writer.objects
Rows == {"r1", "r2"}                          \* row records
Catalogs == {"glottolog", "concepticon"}      \* Catalog instances among the cli values
ArgValues == Catalogs \cup {"verbose"}        \* values of vars(args)

DCAT == "http://www.w3.org/ns/dcat#Distribution"

\* sys.version, already split on whitespace
sys_version == <<"3.7.4", "(default,", "Jul", "9", "2019)">>

\* the tables of the dataset loaded from the metadata copy, with their urls
DefaultUrls == [c \in Tables |-> IF c = "ValueTable" THEN "values.csv" ELSE "languages.csv"]

SeqsUpTo(S, k) == UNION {[1..m -> S] : m \in 0..k}

NoArgs == [is_none |-> TRUE, values |-> <<>>]
Namespace(vs) == [is_none |-> FALSE, values |-> vs]
ArgsChoices == {NoArgs} \cup {Namespace(vs) : vs \in SeqsUpTo(ArgValues, MaxArgs)}

\* dataset: None, a dataset whose repo is None, a dataset in a repository
DatasetChoices == {[is_none |-> TRUE, repo |-> None],
                   [is_none |-> FALSE, repo |-> None],
                   [is_none |-> FALSE, repo |-> "origin"]}

\* Repository.json_ld() / Catalog.json_ld()
json_ld(x) == [rdf_type |-> "prov:Entity", dc_title |-> x]

isinstance_CatalogAny(v) == TRUE

\* isinstance(cat, Catalog)
isinstance_Catalog(v) == v \in Catalogs

\* the loop `for cat in vars(self.args).values()` of write
RECURSIVE CatalogSrcs(_)
CatalogSrcs(vs) ==
    IF vs = <<>> THEN <<>>
    ELSE (IF isinstance_Catalog(Head(vs)) THEN <<json_ld(Head(vs))>> ELSE <<>>)
         \o CatalogSrcs(Tail(vs))

\* srcs as built by write
Srcs(ds, a) ==
    (IF ~ds.is_none /\ ds.repo # None THEN <<json_ld(ds.repo)>> ELSE <<>>)
    \o (IF ~a.is_none THEN CatalogSrcs(a.values) ELSE <<>>)

\* self.cldf.add_provenance(key=val), as a call on the handle
add_provenance(key, val) == [op |-> "add_provenance", key |-> key, val |-> val]

\* self.cldf.write(**kw), as a call on the handle, with the table urls it sees
cldf_write(kw, urls) == [op |-> "write", kw |-> kw, urls |-> urls]

\* the entries of reqs
PythonReq == [dc_title |-> "python", dc_description |-> Head(sys_version)]
PackagesReq == [dc_title |-> "python-packages", dc_relation |-> "requirements.txt"]

\* `except subprocess.CalledProcessError`
Swallowed(exc) == exc = CalledProcessError

\* outcomes of subprocess.run(['pip', 'freeze'], check=True)
PipOutcomes == {None, CalledProcessError, FileNotFoundError}
\* outcomes of the handle's write
IoOutcomes == {None, IOError}
Envs == [pip : PipOutcomes, io : IoOutcomes]

SetUrlSkip(urls, comp, fname) == urls

\* self.cldf[comp].url = csvw.Link(fname)
SetUrl(urls, comp, fname) == [urls EXCEPT ![comp] = fname]

\* the loop `for comp, fname in self.cldf_spec.data_fnames.items()`;
\* self.cldf[comp] fails for a component the dataset does not have
RECURSIVE SetUrls(_, _)
SetUrls(urls, pairs) ==
    IF pairs = <<>> THEN [urls |-> urls, raised |-> None]
    ELSE IF Head(pairs)[1] \notin DOMAIN urls THEN [urls |-> urls, raised |-> KeyError]
    ELSE SetUrls(SetUrl(urls, Head(pairs)[1], Head(pairs)[2]), Tail(pairs))

HandleWriteTwice(cs, kw, urls) == cs \o <<cldf_write(kw, urls), cldf_write(kw, urls)>>

\* line 135: the one call of the handle's write
HandleWrite(cs, kw, urls) == Append(cs, cldf_write(kw, urls))

\* CLDFWriter.write(**kw) in environment env: the handle and directory it leaves,
\* the calls it made on the handle, and the exception it raised (None: returned)
write(self, kw, env) ==
    LET cldf1 == [self.cldf EXCEPT !.rdf_type = DCAT]
        srcs == Srcs(self.dataset, self.args)
        calls1 == IF srcs # <<>> THEN <<add_provenance("wasDerivedFrom", srcs)>> ELSE <<>>
        dir1 == [self.dir EXCEPT !.files = @ \cup {"requirements.txt"}]
        reqs == IF env.pip = None THEN <<PythonReq, PackagesReq>> ELSE <<PythonReq>>
        calls2 == Append(calls1, add_provenance("wasGeneratedBy", reqs))
        set == SetUrls(cldf1.urls, self.cldf_spec.data_fnames)
        cldf2 == [cldf1 EXCEPT !.urls = set.urls]
    IN  IF env.pip # None /\ ~Swallowed(env.pip)
        THEN [cldf |-> cldf1, dir |-> dir1, calls |-> calls1, raised |-> env.pip]
        ELSE IF set.raised # None
        THEN [cldf |-> cldf2, dir |-> dir1, calls |-> calls2, raised |-> set.raised]
        ELSE [cldf |-> cldf2, dir |-> dir1, calls |-> HandleWrite(calls2, kw, cldf2.urls),
              raised |-> env.io]

LookupNoInsert(objs, t) == objs

\* objects[t] on a defaultdict(list): a missing key is inserted with []
Lookup(objs, t) == IF t \in DOMAIN objs THEN objs ELSE objs @@ (t :> <<>>)

\* objects[t].append(r)
AppendTo(objs, t, r) ==
    LET o == Lookup(objs, t)
    IN  IF t \in DOMAIN o THEN [o EXCEPT ![t] = Append(@, r)] ELSE o

ExitKwFirstRows(objs) ==
    [t \in DOMAIN objs |-> IF Len(objs[t]) > 1 THEN <<Head(objs[t])>> ELSE objs[t]]

\* **self.objects
ExitKw(objs) == objs

ExitWritesOnSuccess(exc_type) == exc_type = None

\* __exit__ calls write whatever exc_type is
ExitWrites(exc_type) == TRUE

PropagatesSuppressing(exc_type, raised) == raised

\* what leaves the with statement: the exception of __exit__ if it raised,
\* else (it returned None) the exception of the block
Propagates(exc_type, raised) == IF raised # None THEN raised ELSE exc_type

(***************************************************************************)
(* State machine                                                           *)
(***************************************************************************)
NoOutcome == [op |-> "none", exc_type |-> None, invoked |-> FALSE, kw |-> EmptyMap,
              pip |-> None, raised |-> None, propagated |-> None]

NoHandle == [module |-> None, rdf_type |-> None, urls |-> DefaultUrls]

WriterInit ==
    /\ constructed = FALSE
    /\ cldf_spec = NoSpec
    /\ objects = EmptyMap
    /\ args = NoArgs
    /\ dataset = [is_none |-> TRUE, repo |-> None]
    /\ dir = [exists |-> FALSE, files |-> {}]
    /\ cldf = NoHandle
    /\ calls = <<>>
    /\ inScope = FALSE
    /\ outcome = NoOutcome
    /\ appended = <<>>
    /\ lookedUp = {}
    /\ n = [exits |-> 0, explicit |-> 0, stamps |-> 0, handle |-> 0]

Init ==
    /\ spec_args = DefaultSpecArgs
    /\ spec_result = Pending
    /\ WriterInit

InitCons ==
    /\ spec_args \in SpecArgsSet
    /\ spec_result = Pending
    /\ WriterInit

\* evaluate CLDFSpec(**spec_args)
ConstructSpec ==
    /\ spec_result = Pending
    /\ spec_result' = CLDFSpec(spec_args)
    /\ UNCHANGED <<spec_args, writerVars>>

\* the specs handed to writers: None, and specs with each choice of data_fnames
WriterSpecs == {CLDFSpec([DefaultSpecArgs EXCEPT !.data_fnames = d]).value : d \in DataFnameArgs}

\* states of the output directory before construction
OutdirStates == {"exists", "absent", "no_parent"}

\* CLDFWriter.__init__(outdir, cldf_spec, args, dataset)
Construct(outdir, spec, a, ds) ==
    /\ ~constructed
    /\ outcome.op = "none"
    /\ IF outdir = "no_parent"
       THEN \* outdir.mkdir() raises, nothing is assigned after line 79
            /\ outcome' = [NoOutcome EXCEPT !.op = "init", !.raised = FileNotFoundError,
                                            !.propagated = FileNotFoundError]
            /\ UNCHANGED <<constructed, cldf_spec, dir, cldf, args, dataset>>
       ELSE LET sp == IF spec = NoSpec THEN CLDFSpec(DefaultSpecArgs).value ELSE spec
            IN  /\ constructed' = TRUE
                /\ cldf_spec' = sp
                /\ args' = a
                /\ dataset' = ds
                /\ dir' = [exists |-> TRUE, files |-> {sp.metadata_fname}]
                /\ cldf' = [module |-> cls(sp), rdf_type |-> None, urls |-> DefaultUrls]
                /\ outcome' = [NoOutcome EXCEPT !.op = "init"]
    /\ UNCHANGED <<spec_args, spec_result, objects, calls, inScope, appended, lookedUp, n>>

\* __enter__
Enter ==
    /\ constructed
    /\ ~inScope
    /\ inScope' = TRUE
    /\ UNCHANGED <<spec_args, spec_result, constructed, cldf_spec, objects, args, dataset,
                   dir, cldf, calls, outcome, appended, lookedUp, n>>

\* writer.objects[t], read only
LookupTable(t) ==
    /\ constructed
    /\ t \notin lookedUp
    /\ objects' = Lookup(objects, t)
    /\ lookedUp' = lookedUp \cup {t}
    /\ UNCHANGED <<spec_args, spec_result, constructed, cldf_spec, args, dataset,
                   dir, cldf, calls, inScope, outcome, appended, n>>

\* writer.objects[t].append(r)
AppendRow(t, r) ==
    /\ constructed
    /\ Len(appended) < MaxRows
    /\ objects' = AppendTo(objects, t, r)
    /\ appended' = Append(appended, <<t, r>>)
    /\ lookedUp' = lookedUp \cup {t}
    /\ UNCHANGED <<spec_args, spec_result, constructed, cldf_spec, args, dataset,
                   dir, cldf, calls, inScope, outcome, n>>

Self == [cldf |-> cldf, cldf_spec |-> cldf_spec, args |-> args, dataset |-> dataset, dir |-> dir]

HandleWrites(cs) == Cardinality({i \in DOMAIN cs : cs[i].op = "write"})

\* the effect of one invocation of write(**kw) on the state
Written(op, exc_type, kw, env, propagated, res) ==
    /\ cldf' = res.cldf
    /\ dir' = res.dir
    /\ calls' = res.calls
    /\ outcome' = [op |-> op, exc_type |-> exc_type, invoked |-> TRUE, kw |-> kw,
                   pip |-> env.pip, raised |-> res.raised, propagated |-> propagated]
    /\ n' = [n EXCEPT !.stamps = IF res.cldf.rdf_type = DCAT THEN @ + 1 ELSE @,
                      !.handle = @ + HandleWrites(res.calls),
                      !.exits = IF op = "exit" THEN @ + 1 ELSE @,
                      !.explicit = IF op = "write" THEN @ + 1 ELSE @]

\* the with block ends, normally (exc_type = None) or by raising exc_type, and the
\* runtime calls __exit__(exc_type, exc_val, exc_tb)
ExitScope(exc_type, env) ==
    /\ inScope
    /\ n.exits + n.explicit < MaxWrites
    /\ inScope' = FALSE
    /\ IF ExitWrites(exc_type)
       THEN LET res == write(Self, ExitKw(objects), env)
            IN  Written("exit", exc_type, ExitKw(objects), env,
                        Propagates(exc_type, res.raised), res)
       ELSE /\ outcome' = [NoOutcome EXCEPT !.op = "exit", !.exc_type = exc_type,
                                            !.propagated = exc_type]
            /\ calls' = <<>>
            /\ n' = [n EXCEPT !.exits = @ + 1]
            /\ UNCHANGED <<cldf, dir>>
    /\ UNCHANGED <<spec_args, spec_result, constructed, cldf_spec, objects, args, dataset,
                   appended, lookedUp>>

\* keyword arguments of explicit calls other than **writer.objects
ExplicitKw == {[t \in {"ValueTable"} |-> <<"r2">>]}

\* an explicit writer.write(**kw)
WriteCall(kw, env) ==
    /\ constructed
    /\ n.exits + n.explicit < MaxWrites
    /\ LET res == write(Self, kw, env)
       IN  Written("write", None, kw, env, res.raised, res)
    /\ UNCHANGED <<spec_args, spec_result, constructed, cldf_spec, objects, args, dataset,
                   inScope, appended, lookedUp>>

ScopeErrors == {None, "RuntimeError"}

\* writers of the row-centred specification: few configurations, all operations
RowSpecs == {NoSpec, CLDFSpec([DefaultSpecArgs EXCEPT
                 !.data_fnames = <<(<<"ValueTable", "vals.csv">>)>>]).value}
RowArgs == {Namespace(<<"verbose", "glottolog">>)}
RowDatasets == {[is_none |-> TRUE, repo |-> None]}

Next ==
    \/ \E o \in OutdirStates, sp \in RowSpecs, a \in RowArgs, ds \in RowDatasets :
          Construct(o, sp, a, ds)
    \/ Enter
    \/ \E t \in Tables : LookupTable(t)
    \/ \E t \in Tables, r \in Rows : AppendRow(t, r)
    \/ \E e \in ScopeErrors, env \in Envs : ExitScope(e, env)
    \/ \E kw \in ExplicitKw \cup {objects}, env \in Envs : WriteCall(kw, env)

\* writers of the provenance-centred specification: every configuration, no rows
NextProv ==
    \/ \E o \in OutdirStates, sp \in WriterSpecs \cup {NoSpec}, a \in ArgsChoices,
          ds \in DatasetChoices : Construct(o, sp, a, ds)
    \/ Enter
    \/ \E e \in ScopeErrors, env \in Envs : ExitScope(e, env)
    \/ \E kw \in ExplicitKw \cup {objects}, env \in Envs : WriteCall(kw, env)

NextCons == ConstructSpec

Spec == Init /\ [][Next]_vars

SpecProv == Init /\ [][NextProv]_vars

SpecCons == InitCons /\ [][NextCons]_vars

(***************************************************************************)
(* Properties                                                              *)
(***************************************************************************)
\* the rows appended to table t, in the order of the appends
RowsOf(log, t) ==
    LET sel == SelectSeq(log, LAMBDA e : e[1] = t)
    IN  [i \in 1..Len(sel) |-> sel[i][2]]

\* the calls of the handle's write among cs
WriteEntries(cs) == {cs[i] : i \in {j \in DOMAIN cs : cs[j].op = "write"}}

\* the values recorded under a provenance key among cs
Recorded(cs, key) ==
    {cs[i].val : i \in {j \in DOMAIN cs : cs[j].op = "add_provenance" /\ cs[j].key = key}}

\* the step is a scope exit
IsExit == n'.exits = n.exits + 1

\* the provenance sources the writer's configuration calls for
ExpectedSrcs ==
    LET cats == IF args.is_none THEN <<>>
                ELSE SelectSeq(args.values, LAMBDA v : v \in Catalogs)
        repo == IF ~dataset.is_none /\ dataset.repo # None
                THEN <<[rdf_type |-> "prov:Entity", dc_title |-> dataset.repo]>> ELSE <<>>
    IN  repo \o [i \in 1..Len(cats) |-> [rdf_type |-> "prov:Entity", dc_title |-> cats[i]]]

\* C1: every exit of the scope, after normal completion or after an exception,
\* invokes write, and that write is passed every table looked up and every row
\* appended so far.
C1_ExitWritesEverything ==
    [][IsExit =>
          /\ outcome'.op = "exit"
          /\ outcome'.invoked
          /\ lookedUp \subseteq DOMAIN outcome'.kw
          /\ \A i \in DOMAIN appended :
                /\ appended[i][1] \in DOMAIN outcome'.kw
                /\ \E j \in DOMAIN outcome'.kw[appended[i][1]] :
                      outcome'.kw[appended[i][1]][j] = appended[i][2]]_vars

C1_Witness ==
    /\ outcome.op = "exit"
    /\ outcome.exc_type = "RuntimeError"
    /\ outcome.invoked
    /\ Len(appended) = 2
    /\ lookedUp = Tables
    /\ outcome.kw = objects

\* C2 as stated: after an exception inside the scope the write occurs and the
\* exception of the scope is the one that reaches the caller.
C2_OriginalPropagates ==
    (outcome.op = "exit" /\ outcome.exc_type # None)
        => (outcome.invoked /\ outcome.propagated = outcome.exc_type)

\* C2 amended: after an exception inside the scope, write is invoked and no
\* exception is suppressed: the exception of the scope reaches the caller when
\* write returns, and the exception of write reaches the caller when write raises.
C2_AmendedPropagates ==
    (outcome.op = "exit" /\ outcome.exc_type # None)
        => /\ outcome.invoked
           /\ outcome.propagated # None
           /\ outcome.raised = None => outcome.propagated = outcome.exc_type
           /\ outcome.raised # None => outcome.propagated = outcome.raised

C2_Witness ==
    /\ outcome.op = "exit"
    /\ outcome.exc_type = "RuntimeError"
    /\ outcome.raised = None
    /\ outcome.propagated = "RuntimeError"
    /\ WriteEntries(calls) # {}

\* C3: when the package listing fails (tool absent or exiting with an error),
\* write does not fail for it, wasGeneratedBy holds the python entry and no
\* python-packages entry, and the handle's write is still invoked.
C3_ListingFailureSwallowed ==
    (outcome.invoked /\ outcome.pip # None)
        => /\ outcome.raised \in {None, KeyError, IOError}
           /\ Recorded(calls, "wasGeneratedBy") = {<<PythonReq>>}
           /\ outcome.raised # KeyError => WriteEntries(calls) # {}

\* C4: CLDFSpec(...) with a module that is not a known identifier, or with a
\* default metadata path that does not load as metadata, raises the one error
\* kind ValueError (the spec's ConfigurationError), whatever the load failure;
\* every other call returns an instance.
C4_InvalidSpecRaisesValueError ==
    spec_result.status # "pending" =>
        LET badModule == spec_args.module.value \notin ModuleIds
            badPath == /\ spec_args.default_metadata_path # NoPath
                       /\ spec_args.default_metadata_path \notin MetadataFiles
        IN  IF badModule \/ badPath
            THEN spec_result.status = "raised" /\ spec_result.exc = ValueError
            ELSE spec_result.status = "returned"

C4_Witness ==
    /\ spec_result.status = "raised"
    /\ spec_result.exc = ValueError
    /\ spec_result.cause = FileNotFoundError
    /\ spec_args.module = ClsArg("Wordlist")

\* C5: when the handle's write is invoked, the wasDerivedFrom list recorded is
\* the record of the repository (if the dataset has one) followed by the records
\* of the Catalog values of the cli arguments in their order, and nothing else.
C5_DerivedFromOrder ==
    WriteEntries(calls) # {} =>
        /\ \A v \in Recorded(calls, "wasDerivedFrom") : v = ExpectedSrcs
        /\ ExpectedSrcs # <<>> => Recorded(calls, "wasDerivedFrom") # {}
        /\ \A v \in Recorded(calls, "wasDerivedFrom") :
              \A i \in DOMAIN v : v[i].dc_title \in Catalogs \cup {dataset.repo}

C5_Witness ==
    /\ WriteEntries(calls) # {}
    /\ dataset.repo = "origin"
    /\ ~args.is_none
    /\ args.values = <<"verbose", "concepticon">>
    /\ Recorded(calls, "wasDerivedFrom") = {<<json_ld("origin"), json_ld("concepticon")>>}

\* C6: when the handle's write is invoked, every component named in data_fnames
\* has the override filename as its url and every other component has the url
\* it had before.
C6_DataFnamesApplied ==
    \A e \in WriteEntries(calls) :
        /\ \A i \in DOMAIN cldf_spec.data_fnames :
              e.urls[cldf_spec.data_fnames[i][1]] = cldf_spec.data_fnames[i][2]
        /\ \A c \in DOMAIN e.urls :
              (\A i \in DOMAIN cldf_spec.data_fnames : cldf_spec.data_fnames[i][1] # c)
                  => e.urls[c] = DefaultUrls[c]

C6_Witness ==
    /\ cldf_spec.data_fnames = <<(<<"ValueTable", "vals.csv">>)>>
    /\ \E e \in WriteEntries(calls) :
          e.urls["ValueTable"] = "vals.csv" /\ e.urls["LanguageTable"] = "languages.csv"

\* C7: when the scope exits normally, the handle's write is invoked unless write
\* raised before it, and the rows it gets for each table are exactly the rows
\* appended to that table, each once, in the order of the appends.
C7_RowsPassedInOrder ==
    [][(IsExit /\ outcome'.exc_type = None) =>
          /\ outcome'.raised = None => WriteEntries(calls') # {}
          /\ \A e \in WriteEntries(calls') :
                /\ \A t \in DOMAIN e.kw : e.kw[t] = RowsOf(appended, t)
                /\ \A t \in Tables \ DOMAIN e.kw : RowsOf(appended, t) = <<>>]_vars

C7_Witness ==
    /\ outcome.op = "exit"
    /\ outcome.exc_type = None
    /\ appended = <<(<<"ValueTable", "r2">>), (<<"ValueTable", "r1">>)>>
    /\ \E e \in WriteEntries(calls) : e.kw = [t \in {"ValueTable"} |-> <<"r2", "r1">>]

\* C8 as stated: provenance stamping and the handle's write happen at most once
\* per writer.
C8_OriginalWriteOnce == n.stamps <= 1 /\ n.handle <= 1

\* C8 amended: write runs once per invocation, not once per writer: every scope
\* exit and every explicit call stamps the handle once and invokes the handle's
\* write at most once, and nothing keeps a writer from being written again.
C8_AmendedOncePerInvocation ==
    /\ n.stamps = n.exits + n.explicit
    /\ n.handle <= n.stamps
    /\ Cardinality({i \in DOMAIN calls : calls[i].op = "write"}) <= 1
    /\ (n.stamps > 0) = (cldf.rdf_type = DCAT)

C8_Witness ==
    /\ n.exits = 1
    /\ n.explicit = 1
    /\ n.stamps = 2
    /\ n.handle = 2

\* C9: every write records wasGeneratedBy, and records wasDerivedFrom exactly
\* when there is a repository or a Catalog among the cli values.
C9_ProvenanceRecorded ==
    outcome.invoked =>
        /\ (Recorded(calls, "wasDerivedFrom") # {}) = (ExpectedSrcs # <<>>)
        /\ Recorded(calls, "wasGeneratedBy") # {}

\* C10: the table names passed to the handle's write at scope exit are the names
\* looked up in objects, those never appended to included (with no rows).
C10_LookedUpNamesPassed ==
    [][IsExit => \A e \in WriteEntries(calls') :
                    /\ DOMAIN e.kw = lookedUp
                    /\ \A t \in lookedUp : RowsOf(appended, t) = <<>> => e.kw[t] = <<>>]_vars

C10_Witness ==
    /\ outcome.op = "exit"
    /\ lookedUp = Tables
    /\ \A i \in DOMAIN appended : appended[i][1] = "ValueTable"
    /\ Len(appended) = 1
    /\ \E e \in WriteEntries(calls) :
          DOMAIN e.kw = Tables /\ e.kw["LanguageTable"] = <<>> /\ Len(e.kw["ValueTable"]) = 1
====
